---- MODULE Spec2Model ----
(***************************************************************************)
(* Model of sync_folders.py (class FileSync): a one-way mirror of the      *)
(* directory "source" into the directory "replica", repeated forever.      *)
(*                                                                         *)
(* A path is a sequence of names relative to the working directory, which  *)
(* is the parent of both roots: <<"source","a","b">> is source\a\b.        *)
(* Every name either is one of the words "source" / "replica" or contains  *)
(* neither word, so str.replace(old, new) on a whole path is the           *)
(* replacement of every component equal to old (Replace below).            *)
(* A file is [mtime, data]; data names the file whose bytes it holds.      *)
(* File-system calls follow the Windows behaviour of the Python standard   *)
(* library, the platform whose path separator the program hard-codes.      *)
(***************************************************************************)
EXTENDS Naturals, Sequences, FiniteSets, TLC

\* ------------------------------------------------------------------ bounds
\* Names an entry of a tree may have; the two root words are among them.
Names == {"a", "b", "source", "replica"}
\* Modification timestamps of the files that exist initially.
Times == {1, 2}
\* Entries (directories and files below the two roots, both trees together)
\* that exist initially; a path of depth d needs d entries.
MaxEntries == 3
\* Cycles (calls of sync_files) followed, over all process runs.
MaxCycles == 2
\* Where the process is also stopped and started again (SpecRuns): the
\* entries that exist initially, and the process runs followed.
MaxRunEntries == 1
MaxRuns == 2

VARIABLES
  dirs,         \* the directories that exist (paths from the working directory)
  files,        \* the files that exist: path -> [mtime, data]
  logExists,    \* os.path.exists(self.log_path)
  log,          \* the lines of the log file
  pc,           \* where the process is
  i,            \* index of the running for loop
  src_folders, rep_folders, src_files, rep_files,   \* self.* lists of sync_files
  cycles,       \* history: the sync_files calls started so far
  err,          \* the exception that ended the process, and the call raising it
  applied,      \* history: the actions applied by the running cycle
  mark,         \* history: Len(log) when the running cycle started
  pre,          \* history: the file system when the running cycle started
  runs,         \* history: the process runs started so far
  cut           \* history: a cycle was stopped from outside partway

vars == <<dirs, files, logExists, log, pc, i, src_folders, rep_folders,
          src_files, rep_files, cycles, err, applied, mark, pre, runs, cut>>

\* ------------------------------------------------------------------ paths
SrcRoot == <<"source">>
RepRoot == <<"replica">>

Parent(p) == SubSeq(p, 1, Len(p) - 1)
IsUnder(p, d) == Len(p) > Len(d) /\ SubSeq(p, 1, Len(d)) = d
Rel(p) == SubSeq(p, 2, Len(p))

\* str.replace(old, new) on a path whose names are atoms.
Replace(p, old, new) == [k \in 1..Len(p) |-> IF p[k] = old THEN new ELSE p[k]]
\* .replace("replica", "source"): a replica path into the source namespace.
ToSource(p) == Replace(p, "replica", "source")
\* A replace whose pattern matches nothing: the target is the listed path.
ToReplicaNoMatch(p) == Replace(p, "Source", "replica")
\* .replace("source", "replica"): the replica target of a listed path.
ToReplica(p) == Replace(p, "source", "replica")

InSeq(x, s) == \E k \in 1..Len(s) : s[k] = x

\* ------------------------------------------------------------ file system
IsDir(p) == p \in dirs
IsFile(p) == p \in DOMAIN files
Exists(p) == IsDir(p) \/ IsFile(p)

RECURSIVE Flatten(_)
Flatten(ss) == IF ss = <<>> THEN <<>> ELSE Head(ss) \o Flatten(Tail(ss))

\* The orders in which a directory listing may yield the names.
RECURSIVE Perms(_)
Perms(S) ==
  IF S = {} THEN {<<>>}
  ELSE UNION {{<<n>> \o t : t \in Perms(S \ {n})} : n \in S}

\* os.walk(top), top-down: the dirpath values in the order they are yielded.
\* A top that is no directory yields nothing (the scandir error is ignored).
RECURSIVE WalkDirs(_, _)
WalkDirs(d, ord) ==
  IF ~IsDir(d) THEN <<>>
  ELSE <<d>> \o Flatten([k \in 1..Len(ord) |-> WalkDirs(d \o <<ord[k]>>, ord)])

\* The files of directory d in listing order: f"{dirpath}\{file_name}".
FilesOf(d, ord) ==
  LET all == [k \in 1..Len(ord) |-> d \o <<ord[k]>>]
  IN  SelectSeq(all, IsFile)

WalkFiles(top, ord) ==
  LET ds == WalkDirs(top, ord)
  IN  Flatten([k \in 1..Len(ds) |-> FilesOf(ds[k], ord)])

\* The names found below top, and the outcomes of os.walk(top): one per order
\* of those names.
NamesUnder(top) == {p[Len(p)] : p \in {q \in dirs \cup DOMAIN files : IsUnder(q, top)}}

WalksOf(top) ==
  {[folders |-> WalkDirs(top, o), files |-> WalkFiles(top, o)] :
     o \in Perms(NamesUnder(top))}

\* ------------------------------------------------------------ initial trees
\* A tree: relative path -> 0 for a directory, or the mtime of a file.
EmptyTree == [p \in {} |-> 0]

Grow(t) ==
  {t @@ (p :> k) :
     p \in {q \o <<n>> : q \in {<<>>} \cup {q \in DOMAIN t : t[q] = 0}, n \in Names}
           \ DOMAIN t,
     k \in {0} \cup Times}

RECURSIVE TreesN(_)
TreesN(n) == IF n = 0 THEN {EmptyTree} ELSE UNION {Grow(t) : t \in TreesN(n - 1)}

TreeDirs(root, t) == {root \o p : p \in {q \in DOMAIN t : t[q] = 0}}
TreeFiles(root, t) == {root \o p : p \in {q \in DOMAIN t : t[q] # 0}}

NoErr == [op |-> "", exc |-> ""]

\* What a log file left by an earlier run holds.
OldLog == <<[action |-> "Successfully synced"]>>

\* The state once FileSync is constructed (lines 8-15, 161): any two trees of
\* at most maxEntries entries together, either root possibly missing, the log
\* file absent or left by an earlier run.
InitWith(maxEntries) ==
  \E n \in 0..maxEntries, srcRoot \in BOOLEAN, repRoot \in BOOLEAN :
  \E s \in TreesN(n), r \in UNION {TreesN(m) : m \in 0..(maxEntries - n)} :
    /\ srcRoot \/ s = EmptyTree
    /\ repRoot \/ r = EmptyTree
    /\ dirs = (IF srcRoot THEN {SrcRoot} ELSE {}) \cup TreeDirs(SrcRoot, s)
              \cup (IF repRoot THEN {RepRoot} ELSE {}) \cup TreeDirs(RepRoot, r)
    /\ files = [p \in TreeFiles(SrcRoot, s) \cup TreeFiles(RepRoot, r) |->
                 [mtime |-> IF p[1] = "source" THEN s[Rel(p)] ELSE r[Rel(p)],
                  data |-> p]]
    /\ logExists \in BOOLEAN
    /\ log = IF logExists THEN OldLog ELSE <<>>
    /\ pc = "start"
    /\ i = 0
    /\ src_folders = <<>> /\ rep_folders = <<>>
    /\ src_files = <<>> /\ rep_files = <<>>
    /\ cycles = 0
    /\ err = NoErr
    /\ applied = <<>>
    /\ mark = 0
    /\ pre = [dirs |-> {}, files |-> <<>>]
    /\ runs = 1
    /\ cut = FALSE

Init == InitWith(MaxEntries)

\* ---------------------------------------------------------------- the log
\* One line of log_action; the path "" is <<>>. The wall-clock stamp that
\* starts the line is left out.
LogLine(action, s, r) ==
  IF s # <<>> /\ r # <<>> THEN [action |-> action, src |-> s, rep |-> r]
  ELSE [action |-> action]

\* open(self.log_path, "a") followed by one write: the file is created when
\* absent and the line goes after what the file holds.
LogAppend(content, line) == Append(content, line)

\* A set_log_file that opens the file with "w" whether or not it exists.
SetLogFileTruncates(exists, content) == <<>>

\* set_log_file: the content of the log file after the call.
SetLogFileContent(exists, content) == IF ~exists THEN <<>> ELSE content

log_action(action, s, r) ==
  /\ log' = LogAppend(log, LogLine(action, s, r))
  /\ logExists' = TRUE

NoLog == UNCHANGED <<log, logExists>>

\* ------------------------------------------------------- position in a cycle
\* The for loops of _check_item_deletion, _check_item_creation and
\* _check_item_modification, in the order sync_files calls them.
LoopOrder == <<"del_dirs", "del_files", "mk_dirs", "cp_files", "modify">>

Min(a, b) == IF a < b THEN a ELSE b

\* Iterations of loop k; zip stops at the shorter list.
LoopLen(k, sfo, rfo, sfi, rfi) ==
  CASE k = 1 -> Len(rfo)
    [] k = 2 -> Len(rfi)
    [] k = 3 -> Len(sfo)
    [] k = 4 -> Len(sfi)
    [] k = 5 -> Min(Len(sfi), Len(rfi))

\* The first iteration of the loops from k on; after the last loop sync_files
\* returns to sync_scheduler, which logs the marker.
RECURSIVE Enter(_, _, _, _, _)
Enter(k, sfo, rfo, sfi, rfi) ==
  IF k > Len(LoopOrder) THEN [pc |-> "synced", i |-> 0]
  ELSE IF LoopLen(k, sfo, rfo, sfi, rfi) > 0 THEN [pc |-> LoopOrder[k], i |-> 1]
  ELSE Enter(k + 1, sfo, rfo, sfi, rfi)

\* After iteration i of loop k.
After(k) ==
  IF i < LoopLen(k, src_folders, rep_folders, src_files, rep_files)
  THEN [pc |-> LoopOrder[k], i |-> i + 1]
  ELSE Enter(k + 1, src_folders, rep_folders, src_files, rep_files)

Advance(k) == /\ pc' = After(k).pc
              /\ i' = After(k).i
              /\ err' = err

\* A sync_scheduler that caught the exception of sync_files and went on to
\* log the marker.
RaiseSwallowed(op, e) == /\ pc' = "synced"
                         /\ err' = [op |-> op, exc |-> e]
                         /\ i' = i

\* An exception no handler catches leaves sync_scheduler: the process ends.
Raise(op, e) == /\ pc' = "crashed"
                /\ err' = [op |-> op, exc |-> e]
                /\ i' = i

Lists == <<src_folders, rep_folders, src_files, rep_files>>
Hist == <<mark, pre, runs, cut>>

\* ------------------------------------------------------------- the actions
\* sync_scheduler, line 41.
SetLogFile ==
  /\ pc = "start"
  /\ log' = SetLogFileContent(logExists, log)
  /\ logExists' = TRUE
  /\ pc' = "sync"
  /\ UNCHANGED <<dirs, files, i, Lists, cycles, err, applied, Hist>>

\* sync_files, lines 53-77: the two walks. A walk lists the names of every
\* directory it visits in one order, any order of the names the tree holds.
Walk ==
  /\ pc = "sync"
  /\ cycles < MaxCycles
  /\ \E sw \in WalksOf(SrcRoot), rw \in WalksOf(RepRoot) :
       LET sfo == sw.folders
           sfi == sw.files
           rfo == [k \in 1..Len(rw.folders) |-> ToSource(rw.folders[k])]
           rfi == [k \in 1..Len(rw.files) |-> ToSource(rw.files[k])]
       IN  /\ src_folders' = sfo
           /\ src_files' = sfi
           /\ rep_folders' = rfo
           /\ rep_files' = rfi
           /\ pc' = Enter(1, sfo, rfo, sfi, rfi).pc
           /\ i' = Enter(1, sfo, rfo, sfi, rfi).i
  /\ cycles' = cycles + 1
  /\ applied' = <<>>
  /\ mark' = Len(log)
  /\ pre' = [dirs |-> dirs, files |-> files]
  /\ UNCHANGED <<dirs, files, log, logExists, err, runs, cut>>

\* The record kept of an applied action.
Act(kind, s, r, noop) == [kind |-> kind, src |-> s, rep |-> r, noop |-> noop]
Did(kind, s, r, noop) == applied' = Append(applied, Act(kind, s, r, noop))

\* shutil.rmtree(t) on a directory: t and everything below it is gone.
RmTreeDirs(t) == {d \in dirs : d # t /\ ~IsUnder(d, t)}
RmTreeFiles(t) == [p \in {q \in DOMAIN files : ~IsUnder(q, t)} |-> files[p]]

\* _check_item_deletion, lines 115-121: one iteration of the folder loop.
\* Only FileNotFoundError is caught, and only that branch logs.
DeleteDir ==
  /\ pc = "del_dirs"
  /\ LET folder == rep_folders[i]
         t == ToReplica(folder)
     IN  IF InSeq(folder, src_folders)
         THEN Advance(1) /\ NoLog /\ UNCHANGED <<dirs, files, applied>>
         ELSE IF ~Exists(t)
         THEN /\ log_action("Deleted", folder, t)
              /\ Did("DeleteDir", folder, t, TRUE)
              /\ Advance(1)
              /\ UNCHANGED <<dirs, files>>
         ELSE IF IsFile(t)
         THEN Raise("rmtree", "NotADirectoryError") /\ NoLog /\ UNCHANGED <<dirs, files, applied>>
         ELSE /\ dirs' = RmTreeDirs(t)
              /\ files' = RmTreeFiles(t)
              /\ Did("DeleteDir", folder, t, FALSE)
              /\ Advance(1)
              /\ NoLog
  /\ UNCHANGED <<Lists, cycles, Hist>>

\* os.remove(t) on a file.
RemoveFiles(t) == [p \in DOMAIN files \ {t} |-> files[p]]

\* The file loop without its try/except: os.remove on a missing file ends the
\* process.
DeleteFileUncaught ==
  /\ pc = "del_files"
  /\ LET file_path == rep_files[i]
         t == ToReplica(file_path)
     IN  IF InSeq(file_path, src_files)
         THEN Advance(2) /\ NoLog /\ UNCHANGED <<files, applied>>
         ELSE IF ~Exists(t)
         THEN Raise("remove", "FileNotFoundError") /\ NoLog /\ UNCHANGED <<files, applied>>
         ELSE IF IsDir(t)
         THEN Raise("remove", "PermissionError") /\ NoLog /\ UNCHANGED <<files, applied>>
         ELSE /\ files' = RemoveFiles(t)
              /\ Did("DeleteFile", file_path, t, FALSE)
              /\ Advance(2)
              /\ NoLog
  /\ UNCHANGED <<dirs, Lists, cycles, Hist>>

\* _check_item_deletion, lines 127-133: one iteration of the file loop.
DeleteFile ==
  /\ pc = "del_files"
  /\ LET file_path == rep_files[i]
         t == ToReplica(file_path)
     IN  IF InSeq(file_path, src_files)
         THEN Advance(2) /\ NoLog /\ UNCHANGED <<files, applied>>
         ELSE IF ~Exists(t)
         THEN /\ log_action("Deleted", file_path, t)
              /\ Did("DeleteFile", file_path, t, TRUE)
              /\ Advance(2)
              /\ UNCHANGED files
         ELSE IF IsDir(t)
         THEN Raise("remove", "PermissionError") /\ NoLog /\ UNCHANGED <<files, applied>>
         ELSE /\ files' = RemoveFiles(t)
              /\ Did("DeleteFile", file_path, t, FALSE)
              /\ Advance(2)
              /\ NoLog
  /\ UNCHANGED <<dirs, Lists, cycles, Hist>>

\* os.makedirs(t), exist_ok left False: "" and the directories made, or the
\* exception raised. envOk is FALSE when the system refuses the call
\* (permission denied, disk full).
Prefixes(t) == {SubSeq(t, 1, k) : k \in 1..Len(t)}
MakeDirsErr(t, envOk) ==
  IF Exists(t) THEN "FileExistsError"
  ELSE IF \E q \in Prefixes(t) : IsFile(q) THEN "FileNotFoundError"
  ELSE IF ~envOk THEN "OSError"
  ELSE ""

\* _check_item_creation, lines 96-99: one iteration of the folder loop.
MakeDir ==
  /\ pc = "mk_dirs"
  /\ \E envOk \in BOOLEAN :
     LET folder == src_folders[i]
         t == ToReplica(folder)
     IN  IF InSeq(folder, rep_folders)
         THEN envOk /\ Advance(3) /\ NoLog /\ UNCHANGED <<dirs, applied>>
         ELSE IF MakeDirsErr(t, envOk) # ""
         THEN Raise("makedirs", MakeDirsErr(t, envOk)) /\ NoLog /\ UNCHANGED <<dirs, applied>>
         ELSE /\ dirs' = dirs \cup Prefixes(t)
              /\ log_action("Created", folder, t)
              /\ Did("CreateDir", folder, t, FALSE)
              /\ Advance(3)
  /\ UNCHANGED <<files, Lists, cycles, Hist>>

\* shutil.copy2(s, d): a destination that is a directory receives the file
\* under the source's base name; the copy carries the data and the mtime.
CopyDst(s, d) == IF IsDir(d) THEN d \o <<s[Len(s)]>> ELSE d
Copy2Err(s, d, envOk) ==
  IF ~Exists(s) THEN "FileNotFoundError"
  ELSE IF IsDir(s) THEN "PermissionError"
  ELSE IF IsDir(CopyDst(s, d)) THEN "PermissionError"
  ELSE IF ~IsDir(Parent(CopyDst(s, d))) THEN "FileNotFoundError"
  ELSE IF ~envOk THEN "OSError"
  ELSE ""
Copy2Files(s, d) ==
  [p \in DOMAIN files \cup {CopyDst(s, d)} |->
     IF p = CopyDst(s, d) THEN files[s] ELSE files[p]]

\* _check_item_creation, lines 105-108: one iteration of the file loop.
CopyFile ==
  /\ pc = "cp_files"
  /\ \E envOk \in BOOLEAN :
     LET file_path == src_files[i]
         t == ToReplica(file_path)
     IN  IF InSeq(file_path, rep_files)
         THEN envOk /\ Advance(4) /\ NoLog /\ UNCHANGED <<files, applied>>
         ELSE IF Copy2Err(file_path, t, envOk) # ""
         THEN Raise("copy2", Copy2Err(file_path, t, envOk)) /\ NoLog /\ UNCHANGED <<files, applied>>
         ELSE /\ files' = Copy2Files(file_path, t)
              /\ log_action("Created", file_path, t)
              /\ Did("CreateFile", file_path, t, FALSE)
              /\ Advance(4)
  /\ UNCHANGED <<dirs, Lists, cycles, Hist>>

\* _get_file_time, lines 135-140, at the microsecond resolution of the
\* datetime it returns. A directory has an mtime too, which the model does
\* not track: dirTime stands for it.
GetTimeErr(p) == IF ~Exists(p) THEN "FileNotFoundError" ELSE ""
GetFileTime(p, dirTime) == IF IsDir(p) THEN dirTime ELSE files[p].mtime

\* The pairs _check_item_modification compares: zip(src_files, rep_files).
Zip(a, b) == [k \in 1..Min(Len(a), Len(b)) |-> <<a[k], b[k]>>]

\* _check_item_modification, lines 147-150: one iteration.
Modify ==
  /\ pc = "modify"
  /\ \E envOk \in BOOLEAN, dirTime \in Times :
     LET src_file == Zip(src_files, rep_files)[i][1]
         rep_file == Zip(src_files, rep_files)[i][2]
         t == ToReplica(rep_file)
     IN  IF GetTimeErr(src_file) # "" \/ GetTimeErr(t) # ""
         THEN Raise("getmtime", "FileNotFoundError") /\ NoLog /\ UNCHANGED <<files, applied>>
         ELSE IF GetFileTime(src_file, dirTime) = GetFileTime(t, dirTime)
         THEN envOk /\ Advance(5) /\ NoLog /\ UNCHANGED <<files, applied>>
         ELSE IF Copy2Err(src_file, t, envOk) # ""
         THEN Raise("copy2", Copy2Err(src_file, t, envOk)) /\ NoLog /\ UNCHANGED <<files, applied>>
         ELSE /\ files' = Copy2Files(src_file, t)
              /\ log_action("Modified", src_file, t)
              /\ Did("ModifyFile", src_file, t, FALSE)
              /\ Advance(5)
  /\ UNCHANGED <<dirs, Lists, cycles, Hist>>

\* sync_scheduler, line 44: the marker that ends a cycle.
LogSynced ==
  /\ pc = "synced"
  /\ log_action("Successfully synced", <<>>, <<>>)
  /\ pc' = "sleep"
  /\ UNCHANGED <<dirs, files, i, Lists, cycles, err, applied, Hist>>

\* sync_scheduler, line 45 and back to line 42: time.sleep returns.
Sleep ==
  /\ pc = "sleep"
  /\ pc' = "sync"
  /\ UNCHANGED <<dirs, files, log, logExists, i, Lists, cycles, err, applied, Hist>>

Next ==
  \/ SetLogFile
  \/ Walk
  \/ DeleteDir
  \/ DeleteFile
  \/ MakeDir
  \/ CopyFile
  \/ Modify
  \/ LogSynced
  \/ Sleep

Spec == Init /\ [][Next]_vars

\* ------------------------------------------------------- what claims read
\* The tree below a root, by relative path, in file system fs = [dirs, files].
RelDirs(fs, root) == {Rel(d) : d \in {q \in fs.dirs : IsUnder(q, root)}}
RelFiles(fs, root) == {Rel(f) : f \in {q \in DOMAIN fs.files : IsUnder(q, root)}}
Now == [dirs |-> dirs, files |-> files]

\* The replica mirrors the source: same directories, same files, same mtimes.
Mirrored ==
  /\ RelDirs(Now, RepRoot) = RelDirs(Now, SrcRoot)
  /\ RelFiles(Now, RepRoot) = RelFiles(Now, SrcRoot)
  /\ \A rp \in RelFiles(Now, SrcRoot) :
       SrcRoot \o rp \in DOMAIN files /\ RepRoot \o rp \in DOMAIN files
       => files[RepRoot \o rp].mtime = files[SrcRoot \o rp].mtime

\* sync_files has returned: the cycle applied all its actions.
CycleDone == pc \in {"synced", "sleep"}
\* The lines the running cycle has added to the log.
CycleLog == SubSeq(log, mark + 1, Len(log))
Marker == LogLine("Successfully synced", <<>>, <<>>)
\* The lines of the running cycle with this label for this replica path.
LinesFor(label, r) ==
  {k \in (mark + 1)..Len(log) :
     /\ log[k].action = label
     /\ "rep" \in DOMAIN log[k]
     /\ log[k].rep = r}
\* Relative paths that were files in both trees when the cycle started.
InBoth == RelFiles(pre, SrcRoot) \cap RelFiles(pre, RepRoot)
PreSrc(rp) == pre.files[SrcRoot \o rp]
PreRep(rp) == pre.files[RepRoot \o rp]

\* An ordinary cycle: it found both roots, and no entry with the name of a
\* root. Both walks succeed and the two str.replace calls translate every
\* path to its counterpart and back.
Ordinary ==
  /\ SrcRoot \in pre.dirs /\ RepRoot \in pre.dirs
  /\ \A p \in pre.dirs \cup DOMAIN pre.files :
       \A k \in 2..Len(p) : p[k] \notin {"source", "replica"}

\* C1: Convergence. Once a cycle has run to completion the replica has the
\* source's relative directory paths, relative file paths and file mtimes
\* (stated for ordinary cycles).
C1_Convergence == (CycleDone /\ Ordinary) => Mirrored

\* C2: Idempotence. A cycle that follows a completed cycle (the source being
\* unchanged) applies no action and adds only the marker to the log
\* (stated for ordinary cycles).
C2_Idempotence ==
  (pc = "sleep" /\ cycles >= 2 /\ Ordinary) =>
    (applied = <<>> /\ CycleLog = <<Marker>>)

\* C3: Timestamp-driven modification. A file present in both trees whose
\* source mtime differs from the replica mtime is, once the cycle is done,
\* the copy of the source file at the same relative path, and the cycle has
\* logged one "Modified" line for it
\* (stated for ordinary cycles).
C3_TimestampModification ==
  (CycleDone /\ Ordinary) =>
    \A rp \in InBoth :
      PreSrc(rp).mtime # PreRep(rp).mtime =>
        /\ RepRoot \o rp \in DOMAIN files
        /\ files[RepRoot \o rp] = PreSrc(rp)
        /\ Cardinality(LinesFor("Modified", RepRoot \o rp)) = 1

\* C4: Missed-change limitation. A replica file whose source file has the
\* same mtime is never overwritten by the cycle: it keeps its content and
\* mtime at every point of the cycle
\* (stated for ordinary cycles).
C4_EqualTimeUntouched ==
  (cycles >= 1 /\ Ordinary) =>
    \A rp \in InBoth :
      PreSrc(rp).mtime = PreRep(rp).mtime =>
        /\ RepRoot \o rp \in DOMAIN files
        /\ files[RepRoot \o rp] = PreRep(rp)

\* C5: Deletion propagation. A file that is in the replica and not in the
\* source when the cycle starts is, once the cycle is done, gone from the
\* replica, and the cycle has logged exactly one "Deleted" line for it
\* (stated for ordinary cycles).
C5_DeletionPropagation ==
  (CycleDone /\ Ordinary) =>
    \A rp \in RelFiles(pre, RepRoot) \ RelFiles(pre, SrcRoot) :
      /\ RepRoot \o rp \notin DOMAIN files
      /\ Cardinality(LinesFor("Deleted", RepRoot \o rp)) = 1

\* Populated replica directories that were absent from the source when the
\* cycle started.
Doomed ==
  {d \in pre.dirs :
     /\ IsUnder(d, RepRoot)
     /\ Rel(d) \notin RelDirs(pre, SrcRoot)
     /\ \E q \in pre.dirs \cup DOMAIN pre.files : IsUnder(q, d)}

\* C6: Cascading directory deletion. A cycle that finds a populated replica
\* directory absent from the source ends with no unhandled error (the system
\* refusing a create or a copy aside), and once it is done the directory and
\* all its descendants are gone
\* (stated for ordinary cycles).
C6_CascadingDeletion ==
  (cycles >= 1 /\ Doomed # {} /\ Ordinary) =>
    /\ err.exc \in {"", "OSError"}
    /\ CycleDone =>
         \A d \in Doomed : d \notin dirs /\ ~\E q \in dirs \cup DOMAIN files : IsUnder(q, d)

\* C7: Enumeration failure is fatal. A cycle started with the source root or
\* the replica root missing raises out of the walk: it enters no loop,
\* applies no action and does not return to the scheduler.
C7_EnumerationFatal ==
  (cycles >= 1 /\ pc # "start" /\ (SrcRoot \notin pre.dirs \/ RepRoot \notin pre.dirs)) =>
    (pc = "crashed" /\ applied = <<>>)

\* C8: A failing makedirs or copy2 on one item does not abort the cycle: the
\* exception does not end the process.
C8_FailureDoesNotAbort == ~(pc = "crashed" /\ err.op \in {"makedirs", "copy2"})

IsPrefix(a, b) == Len(a) <= Len(b) /\ SubSeq(b, 1, Len(a)) = a

\* C9: Log durability. Over any number of process runs no step removes,
\* rewrites or truncates a line of the log: what the file held stays a prefix
\* of what it holds, a file that exists keeps existing, and set_log_file
\* leaves a file that exists (empty when it was absent).
C9_LogAppendOnly ==
  [][/\ IsPrefix(log, log')
     /\ (logExists => logExists')
     /\ (pc = "start" /\ pc' # "killed" => logExists')]_vars

\* A later process run has gone through set_log_file on a log that held
\* lines, and has logged since.
C9_Witness ==
  /\ runs >= 2
  /\ pc = "sleep"
  /\ \E k \in 1..mark : log[k] = Marker
  /\ Len(log) > mark

\* The log label of an action kind.
Label(kind) ==
  CASE kind \in {"CreateDir", "CreateFile"} -> "Created"
    [] kind \in {"DeleteDir", "DeleteFile"} -> "Deleted"
    [] kind = "ModifyFile" -> "Modified"

\* C10: Action-log completeness. Every action the running cycle has applied
\* (no-op deletions included) has a line in the log with its label and its
\* replica path
\* (stated for ordinary cycles).
C10_EveryActionLogged ==
  Ordinary => \A k \in 1..Len(applied) : LinesFor(Label(applied[k].kind), applied[k].rep) # {}

\* ------------------------------------------------------------ process runs
Running == pc \notin {"killed", "crashed"}

\* Iteration j of loop l applies an action (the modification loop aside, whose
\* test reads the file system).
ActsAt(l, j) ==
  CASE l = 1 -> ~InSeq(rep_folders[j], src_folders)
    [] l = 2 -> ~InSeq(rep_files[j], src_files)
    [] l = 3 -> ~InSeq(src_folders[j], rep_folders)
    [] l = 4 -> ~InSeq(src_files[j], rep_files)
    [] l = 5 -> FALSE

\* The running cycle has applied an action and has another one to apply.
Partway ==
  /\ applied # <<>>
  /\ \E l \in 1..Len(LoopOrder) :
       /\ pc = LoopOrder[l]
       /\ \E m \in l..Len(LoopOrder) :
            \E j \in (IF m = l THEN i ELSE 1)..LoopLen(m, src_folders, rep_folders, src_files, rep_files) :
              ActsAt(m, j)

\* The process is terminated from outside; nothing in sync_scheduler
\* (lines 41-45) handles or defers it. What the object held is gone.
Kill ==
  /\ Running
  /\ pc' = "killed"
  /\ i' = 0
  /\ src_folders' = <<>> /\ rep_folders' = <<>>
  /\ src_files' = <<>> /\ rep_files' = <<>>
  /\ cut' = (cut \/ Partway)
  /\ UNCHANGED <<dirs, files, log, logExists, cycles, err, applied, mark, pre, runs>>

\* The program is started again (lines 152-162): a new FileSync object; the
\* file system and the log file are what the last run left.
Restart ==
  /\ ~Running
  /\ runs < MaxRuns
  /\ runs' = runs + 1
  /\ pc' = "start"
  /\ i' = 0
  /\ src_folders' = <<>> /\ rep_folders' = <<>>
  /\ src_files' = <<>> /\ rep_files' = <<>>
  /\ err' = NoErr
  /\ UNCHANGED <<dirs, files, log, logExists, cycles, applied, mark, pre, cut>>

InitRuns == InitWith(MaxRunEntries)

NextRuns ==
  \/ SetLogFile
  \/ Walk
  \/ DeleteDir
  \/ DeleteFile
  \/ MakeDir
  \/ CopyFile
  \/ Modify
  \/ LogSynced
  \/ Sleep
  \/ Kill
  \/ Restart

SpecRuns == InitRuns /\ [][NextRuns]_vars

\* ------------------------------------------------------- claims on rebasing
\* The source paths the running cycle listed (lines 60-67): the arguments of
\* the .replace("source", "replica") calls of the creation loops.
ListedSrc ==
  {src_folders[k] : k \in 1..Len(src_folders)} \cup {src_files[k] : k \in 1..Len(src_files)}

\* C11: Path rebasing is relative-path composition. For every listed source
\* path p, the replica target is the replica root followed by p's relative
\* path, rebasing the target back gives p, and two distinct source paths have
\* distinct targets.
C11_RebasingRoundTrip ==
  /\ \A p \in ListedSrc :
       /\ ToReplica(p) = RepRoot \o Rel(p)
       /\ ToSource(ToReplica(p)) = p
  /\ \A p, q \in ListedSrc : ToReplica(p) = ToReplica(q) => p = q

\* ------------------------------------------------- claims on the cycle marker
\* The positions of sync_files: inside one of its loops, or returned.
InCycle == {LoopOrder[k] : k \in 1..Len(LoopOrder)} \cup {"synced"}
MarkersIn(s) == {k \in 1..Len(s) : s[k] = Marker}

\* C12: Cycle boundary marker. While a cycle runs, and when it ends in an
\* exception, the log holds no marker after the lines the cycle started on;
\* when the scheduler sleeps, the cycle's lines end with the marker and hold
\* no other; the marker is written only once sync_files has returned without
\* an exception, by the step that takes the scheduler to its sleep, and every
\* other line is written from inside a loop of the cycle.
C12_CycleMarker ==
  /\ []((cycles >= 1 /\ pc \in InCycle \cup {"crashed"}) => MarkersIn(CycleLog) = {})
  /\ [](pc = "sleep" => MarkersIn(CycleLog) = {Len(CycleLog)} /\ CycleLog # <<>>)
  /\ [][log' # log =>
          /\ Len(log') = Len(log) + 1 /\ IsPrefix(log, log')
          /\ IF log'[Len(log')] = Marker
             THEN pc = "synced" /\ err = NoErr /\ pc' = "sleep"
             ELSE pc \in InCycle \ {"synced"}]_vars

\* A second cycle has logged an action and then its marker, after the marker
\* of the first.
C12_Witness ==
  /\ cycles = 2
  /\ pc = "sleep"
  /\ Len(CycleLog) >= 2
  /\ mark >= 1 /\ log[mark] = Marker

\* ------------------------------------------------------ a smaller start
\* Trees of at most MaxSmallEntries entries, for the claims checked with the
\* bounds raised as well; the process is not stopped from outside.
MaxSmallEntries == 2
InitSmall == InitWith(MaxSmallEntries)
SpecSmall == InitSmall /\ [][Next]_vars

\* --------------------------------------------------- claims on the deletions
Deleting == {"del_dirs", "del_files"}
\* The listed replica item the deletion loops are at.
DelItem == IF pc = "del_dirs" THEN rep_folders[i] ELSE rep_files[i]
\* The item is to be deleted and its replica target is not there.
AbsentTarget ==
  /\ pc \in Deleting
  /\ ~InSeq(DelItem, IF pc = "del_dirs" THEN src_folders ELSE src_files)
  /\ ~Exists(ToReplica(DelItem))
\* The replica targets of all the deletions of the running cycle.
DelTargets ==
  {ToReplica(rep_folders[k]) : k \in {j \in 1..Len(rep_folders) : ~InSeq(rep_folders[j], src_folders)}}
  \cup {ToReplica(rep_files[k]) : k \in {j \in 1..Len(rep_files) : ~InSeq(rep_files[j], src_files)}}

\* C13: Deleting an already-absent target is an idempotent success. The
\* iteration that finds its target absent raises nothing, appends the
\* "Deleted" line of the item to the log and counts as an applied action; the
\* loops go on, so that when the deletions are over every deletion target of
\* the cycle is gone.
C13_AbsentDeleteSucceeds ==
  /\ [][AbsentTarget =>
          /\ pc' # "crashed" /\ err' = NoErr
          /\ log' = Append(log, LogLine("Deleted", DelItem, ToReplica(DelItem)))
          /\ Len(applied') = Len(applied) + 1
          /\ applied'[Len(applied')].rep = ToReplica(DelItem)]_vars
  /\ [][(pc \in Deleting /\ pc' \notin Deleting \cup {"crashed"}) =>
          \A t \in DelTargets : t \notin dirs' /\ t \notin DOMAIN files']_vars

\* The cycle has got through a deletion whose target was in the replica when
\* the cycle started and had been removed with its directory by then.
C13_Witness ==
  /\ pc \in InCycle \ Deleting
  /\ \E k \in 1..Len(applied) :
       /\ applied[k].noop
       /\ applied[k].rep \in pre.dirs \cup DOMAIN pre.files
       /\ \E j \in 1..(k - 1) : applied[j].kind = "DeleteDir" /\ IsUnder(applied[k].rep, applied[j].rep)

\* ---------------------------------------------------- claims on the creations
\* C14: CreateDir is idempotent. A CreateDir action whose replica target
\* exists when it is applied succeeds: os.makedirs does not end the process
\* with FileExistsError.
C14_CreateDirIdempotent ==
  ~(pc = "crashed" /\ err.op = "makedirs" /\ err.exc = "FileExistsError")

\* The place of an action kind in the order sync_files applies the kinds.
Phase(kind) ==
  CASE kind \in {"DeleteDir", "DeleteFile"} -> 1
    [] kind = "CreateDir" -> 2
    [] kind = "CreateFile" -> 3
    [] kind = "ModifyFile" -> 4

\* C15: Action ordering within a cycle. The cycle applies its deletions
\* first, then its CreateDir actions, then its CreateFile actions, then its
\* ModifyFile actions; and when a CreateFile copy is about to be applied, the
\* parent directory of its replica target exists.
C15_ActionOrdering ==
  /\ \A j, k \in 1..Len(applied) :
       j < k => Phase(applied[j].kind) <= Phase(applied[k].kind)
  /\ (pc = "cp_files" /\ ~InSeq(src_files[i], rep_files)) =>
       IsDir(Parent(ToReplica(src_files[i])))

\* --------------------------------------------------- claims on the scheduler
\* C16: Scheduler state machine. The scheduler sleeps only with the marker of
\* the cycle as the last line of the log, and it has no terminal state: the
\* process does not end, so that another cycle can start (stated for ordinary
\* cycles in which the system refuses no create or copy).
C16_SchedulerStateMachine ==
  /\ pc = "sleep" => (log # <<>> /\ log[Len(log)] = Marker)
  /\ (cycles >= 1 /\ Ordinary /\ err.exc # "OSError") => pc # "crashed"

\* ------------------------------------------------------ claims on recovery
SeqSet(s) == {s[k] : k \in 1..Len(s)}

\* A cycle started now would apply no action, whatever the listing orders:
\* the rebased replica listing has the paths of the source listing, and every
\* pair of the modification loop has equal mtimes. No cycle changes the file
\* system from here on.
Settled ==
  \A sw \in WalksOf(SrcRoot), rw \in WalksOf(RepRoot) :
    LET rfo == [k \in 1..Len(rw.folders) |-> ToSource(rw.folders[k])]
        rfi == [k \in 1..Len(rw.files) |-> ToSource(rw.files[k])]
    IN  /\ SeqSet(rfo) = SeqSet(sw.folders)
        /\ SeqSet(rfi) = SeqSet(sw.files)
        /\ \A k \in 1..Len(Zip(sw.files, rfi)) :
             /\ IsFile(ToReplica(rfi[k]))
             /\ files[sw.files[k]].mtime = files[ToReplica(rfi[k])].mtime

\* C17: Eventual recovery. After a cycle was interrupted partway, the cycles
\* that follow finish the job: when a cycle has completed and left nothing
\* for any later cycle to do, the replica has the source's relative paths and
\* file mtimes.
C17_EventualRecovery == (cut /\ pc = "sleep" /\ Settled) => Mirrored

\* ------------------------------------------------------- claims on the copies
\* C18: Copies stay on their own path. Every copy the running cycle has
\* applied ("Created" or "Modified") read a source file and wrote the replica
\* file of the same relative path, and the modification check does not read
\* a replica file that is not there any more
\* (stated for ordinary cycles).
C18_CopiesOnOwnPath ==
  Ordinary =>
    /\ \A k \in 1..Len(applied) :
         applied[k].kind \in {"CreateFile", "ModifyFile"} =>
           /\ IsUnder(applied[k].src, SrcRoot)
           /\ IsUnder(applied[k].rep, RepRoot)
           /\ Rel(applied[k].src) = Rel(applied[k].rep)
    /\ ~(pc = "crashed" /\ err.op = "getmtime")

\* ------------------------------------------------------ claims on the source
\* What lies at or below the source root.
SourceDirs(ds) == {d \in ds : d[1] = "source"}
SourceFiles(fs) == [p \in {q \in DOMAIN fs : q[1] = "source"} |-> fs[p]]

====
